---- MODULE Spec2Model ----
(***************************************************************************)
(* docGPT: the HTTP gateway (app.py) and the chat gateway (handler.py,     *)
(* duplicated in app.py) of a PDF question-answering bot.  A run is one    *)
(* call of a handler; runs of several worker processes interleave at the   *)
(* granularity of the calls a handler makes and share the temporary        *)
(* directory and the vector index.                                         *)
(*                                                                         *)
(* Strings are sequences of string tokens, so that concatenation (an       *)
(* f-string) is \o and the empty string is << >>.  An emoji of a chat text *)
(* is written as its short code (:x:, :mag:, ...).                         *)
(***************************************************************************)
EXTENDS Integers, Sequences, FiniteSets, TLC

\* Bounds of the model.
MaxRuns == 2
NumPaths == 2

Runs == 1..MaxRuns
\* names tempfile can generate in the temporary directory
Paths == 1..NumPaths
\* contents of uploaded PDFs, and question strings
Docs == {"sky.pdf"}
Questions == {"What color is the sky?", "Who wrote it?"}

\* contents of a path of the temporary directory: no file, a file not (fully)
\* written, or the bytes of a document
Absent == "absent"
Partial == "partial"

VARIABLES run, fs, index

vars == <<run, fs, index>>

----------------------------------------------------------------------------
\* Exceptions and their str()

\* An exception object: its class, its fields, and what str() gives for it.
NoExc == [type |-> "none", status_code |-> 0, detail |-> << >>, str |-> << >>]

Exception(msg) ==
    [type |-> "Exception", status_code |-> 0, detail |-> msg, str |-> msg]

\* fastapi's HTTPException(status_code, detail) passes no args to Exception:
\* its str() is "<status_code>: <detail>" where the installed version defines
\* __str__ and "" where it does not
HTTPException(status_code, detail) ==
    {[type |-> "HTTPException", status_code |-> status_code,
      detail |-> detail, str |-> s] :
        s \in {<<ToString(status_code), ": ">> \o detail, << >>}}

\* what a delegated call may raise: an exception with or without a message
Raised == {Exception(<< >>), Exception(<<"error">>)}

FileNotFoundError == Exception(<<"No such file or directory">>)

str(e) == e.str

----------------------------------------------------------------------------
\* Responses and chat messages

NoResp == [status |-> 0, key |-> "", body |-> << >>]

JSON(key, body) == [status |-> 200, key |-> key, body |-> body]

\* what the framework answers when a handler raises
\* HTTPException(status_code=status_code, detail=detail)
ErrorResponse(status_code, detail) ==
    [status |-> status_code, key |-> "detail", body |-> detail]

NoMsg == [sent |-> FALSE, text |-> << >>, edited |-> FALSE]

reply_text(text) == [sent |-> TRUE, text |-> text, edited |-> FALSE]

edit_text(message, text) == [message EXCEPT !.text = text, !.edited = TRUE]

IdleRun ==
    [kind |-> "idle", pc |-> "idle", arg |-> "", update |-> "",
     temp_file_path |-> 0, created |-> 0, document_chunks |-> "",
     success |-> "unbound", exc |-> NoExc, resp |-> NoResp,
     msg |-> NoMsg, reply |-> NoMsg, seen |-> {}]

----------------------------------------------------------------------------
\* Collaborators (tempfile, utils)

\* as NamedTemporaryFile, without the exclusive open
NamedTemporaryFile_reusing == Paths

\* tempfile.NamedTemporaryFile(delete=False): the names it can create, each
\* opened exclusively, so never the name of an existing file
NamedTemporaryFile == {p \in Paths : fs[p] = Absent}

\* qa_ret(qdrant_store, question): the answer synthesised over the index, or
\* an exception when nothing was indexed
qa_ret(qdrant_store, question) ==
    IF qdrant_store = {}
    THEN [raised |-> TRUE, e |-> Exception(<<"collection not found">>),
          value |-> << >>]
    ELSE [raised |-> FALSE, e |-> NoExc,
          value |-> <<"answer to ", question, " from ", ToString(qdrant_store)>>]

----------------------------------------------------------------------------
Init ==
    /\ run = [r \in Runs |-> IdleRun]
    /\ fs = [p \in Paths |-> Absent]
    /\ index = {}

Set(r, rec) == run' = [run EXCEPT ![r] = rec]

\* The handler returns or raises: its frame, with the upload and the locals
\* naming the temporary file, is dropped.  What stays is what its caller and
\* the chat observe (and the exception and the result of send_to_qdrant that
\* decided it).
leave(rec) ==
    [rec EXCEPT !.pc = "done", !.temp_file_path = 0, !.created = 0,
                !.document_chunks = "",
                !.arg = IF rec.kind \in {"upload_pdf", "handle_pdf"} THEN "" ELSE @]

----------------------------------------------------------------------------
\* POST /upload-pdf/

\* as upload_pdf_except, with the detail being str(e) alone
upload_pdf_except_bare(rec, e) ==
    [leave(rec) EXCEPT !.exc = e,
                !.resp = ErrorResponse(500, str(e))]

\* except Exception as e: raise HTTPException(500, f"Failed to process PDF: {str(e)}")
upload_pdf_except(rec, e) ==
    [leave(rec) EXCEPT !.exc = e,
                !.resp = ErrorResponse(500,
                             <<"Failed to process PDF: ">> \o str(e))]

\* with NamedTemporaryFile(...) as temp_file: write the upload, keep the name
upload_pdf_save(r) ==
    /\ run[r].pc = "idle"
    /\ \E file \in Docs :
        LET rec == [IdleRun EXCEPT !.kind = "upload_pdf", !.arg = file] IN
        \/ \E e \in Raised :
              /\ Set(r, upload_pdf_except(rec, e))
              /\ UNCHANGED fs
        \/ \E p \in NamedTemporaryFile, e \in Raised :
              /\ fs' = [fs EXCEPT ![p] = Partial]
              /\ Set(r, upload_pdf_except([rec EXCEPT !.created = p], e))
        \/ \E p \in NamedTemporaryFile :
              /\ fs' = [fs EXCEPT ![p] = file]
              /\ Set(r, [rec EXCEPT !.created = p, !.temp_file_path = p,
                                    !.pc = "process_pdf"])
    /\ UNCHANGED index

\* document_chunks = process_pdf(temp_file_path), which reads the file, then
\* embedding_model = OpenAIEmbeddings(...), which touches nothing shared;
\* either may raise
upload_pdf_process(r) ==
    /\ run[r].kind = "upload_pdf"
    /\ run[r].pc = "process_pdf"
    /\ IF fs[run[r].temp_file_path] = Absent
       THEN Set(r, upload_pdf_except(run[r], FileNotFoundError))
       ELSE \/ Set(r, [run[r] EXCEPT
                         !.document_chunks = fs[run[r].temp_file_path],
                         !.pc = "send_to_qdrant"])
            \/ \E e \in Raised : Set(r, upload_pdf_except(run[r], e))
            \/ \E e \in Raised :
                  Set(r, upload_pdf_except([run[r] EXCEPT
                         !.document_chunks = fs[run[r].temp_file_path]], e))
    /\ UNCHANGED <<fs, index>>

\* success = send_to_qdrant(document_chunks, embedding_model)
upload_pdf_send(r) ==
    /\ run[r].kind = "upload_pdf"
    /\ run[r].pc = "send_to_qdrant"
    /\ \/ /\ index' = index \cup {run[r].document_chunks}
          /\ Set(r, [run[r] EXCEPT !.success = "True", !.pc = "os.remove"])
       \/ /\ UNCHANGED index
          /\ Set(r, [run[r] EXCEPT !.success = "False", !.pc = "os.remove"])
       \/ /\ UNCHANGED index
          /\ \E e \in Raised : Set(r, upload_pdf_except(run[r], e))
    /\ UNCHANGED fs

\* os.remove(temp_file_path), then the response for success
upload_pdf_remove(r) ==
    /\ run[r].kind = "upload_pdf"
    /\ run[r].pc = "os.remove"
    /\ IF fs[run[r].temp_file_path] = Absent
       THEN /\ Set(r, upload_pdf_except(run[r], FileNotFoundError))
            /\ UNCHANGED fs
       ELSE /\ fs' = [fs EXCEPT ![run[r].temp_file_path] = Absent]
            /\ IF run[r].success = "True"
               THEN Set(r, [leave(run[r]) EXCEPT
                      !.resp = JSON("message",
                         <<"PDF successfully processed and stored in vector DB">>)])
               ELSE \E e \in HTTPException(500,
                                <<"Failed to store PDF in vector DB">>) :
                        Set(r, upload_pdf_except(run[r], e))
    /\ UNCHANGED index

----------------------------------------------------------------------------
\* POST /ask-question/

\* except Exception as e: raise HTTPException(500, f"Failed to retrieve answer: {str(e)}")
ask_question_except(rec, e) ==
    [leave(rec) EXCEPT !.exc = e,
                !.resp = ErrorResponse(500,
                             <<"Failed to retrieve answer: ">> \o str(e))]

\* as ask_question_return, answering with the question instead of the response
ask_question_return_echo(rec, response) ==
    [leave(rec) EXCEPT !.resp = JSON("answer", <<rec.arg>>)]

\* return {"answer": response}
ask_question_return(rec, response) ==
    [leave(rec) EXCEPT !.resp = JSON("answer", response)]

\* as ask_question, also storing the question in the index
ask_question_storing(r) ==
    /\ run[r].pc = "idle"
    /\ \E question \in Questions :
        LET rec == [IdleRun EXCEPT !.kind = "ask_question", !.arg = question] IN
        \/ /\ \E e \in Raised : Set(r, ask_question_except(rec, e))
           /\ UNCHANGED index
        \/ LET response == qa_ret(index, question)
               called == [rec EXCEPT !.seen = index, !.success = "called"]
           IN  /\ index' = index \cup {question}
               /\ IF response.raised
                  THEN Set(r, ask_question_except(called, response.e))
                  ELSE Set(r, ask_question_return(called, response.value))
    /\ UNCHANGED fs

\* qdrant_client(), then qa_ret(qdrant_store, question); no await in between
ask_question(r) ==
    /\ run[r].pc = "idle"
    /\ \E question \in Questions :
        LET rec == [IdleRun EXCEPT !.kind = "ask_question", !.arg = question] IN
        \/ \E e \in Raised : Set(r, ask_question_except(rec, e))
        \/ LET response == qa_ret(index, question)
               called == [rec EXCEPT !.seen = index, !.success = "called"]
           IN  IF response.raised
               THEN Set(r, ask_question_except(called, response.e))
               ELSE Set(r, ask_question_return(called, response.value))
    /\ UNCHANGED <<fs, index>>

----------------------------------------------------------------------------
\* GET /

\* as health_check, reporting whether anything was indexed
health_check_reporting(r) ==
    /\ run[r].pc = "idle"
    /\ Set(r, [leave([IdleRun EXCEPT !.kind = "health_check"]) EXCEPT
                 !.resp = JSON("status",
                     IF index = {} THEN <<"No documents yet">>
                                   ELSE <<"Hello There!">>)])
    /\ UNCHANGED <<fs, index>>

\* return {"status": "Hello There!"}
health_check(r) ==
    /\ run[r].pc = "idle"
    /\ Set(r, [leave([IdleRun EXCEPT !.kind = "health_check"]) EXCEPT
                      !.resp = JSON("status", <<"Hello There!">>)])
    /\ UNCHANGED <<fs, index>>

----------------------------------------------------------------------------
\* POST /telegram/webhook and the bot application of app.py

\* the updates a chat can send: the two commands, a PDF document, a text
Updates == {"/start", "/help", "document", "text"}

\* bot_app after module load: the handlers add_handler was called with, in order
bot_app_handlers ==
    << [command |-> "/start", callback |-> "start_command"],
       [command |-> "/help", callback |-> "help_command"] >>

\* the texts of the command handlers bound when add_handler ran
callback_text(callback) ==
    IF callback = "start_command"
    THEN <<"Hello! I am your PDF assistant bot. Send me a PDF file and then ask questions about it.">>
    ELSE <<"Commands: /start - Start the bot /help - Show this help message">>

\* bot_app.process_update(update): the first handler whose filter accepts the
\* update runs; an update no handler accepts is dropped
process_update(rec, update) ==
    LET matching == {i \in 1..Len(bot_app_handlers) :
                        bot_app_handlers[i].command = update}
    IN  IF matching = {}
        THEN rec
        ELSE LET i == CHOOSE k \in matching : \A j \in matching : k <= j
             IN  [rec EXCEPT !.reply =
                     reply_text(callback_text(bot_app_handlers[i].callback))]

telegram_webhook(r) ==
    /\ run[r].pc = "idle"
    /\ \E update \in Updates :
        LET rec == [IdleRun EXCEPT !.kind = "telegram_webhook", !.update = update]
        IN  Set(r, [leave(process_update(rec, update)) EXCEPT
                      !.resp = JSON("status", <<"ok">>)])
    /\ UNCHANGED <<fs, index>>

----------------------------------------------------------------------------
\* handle_pdf (chat gateway)

\* except Exception as e: reply_text(f"... an error occurred while processing your PDF: {str(e)}")
handle_pdf_except(rec, e) ==
    [leave(rec) EXCEPT !.exc = e,
                !.reply = reply_text(
                    <<":x: Sorry, an error occurred while processing your PDF: ">>
                        \o str(e))]

\* processing_message = await update.message.reply_text("Processing your PDF...")
handle_pdf_ack(r) ==
    /\ run[r].pc = "idle"
    /\ \E document \in Docs :
        Set(r, [IdleRun EXCEPT !.kind = "handle_pdf", !.arg = document,
                               !.msg = reply_text(<<"Processing your PDF... :page_facing_up:">>),
                               !.pc = "download_to_drive"])
    /\ UNCHANGED <<fs, index>>

\* get_file, then NamedTemporaryFile and download_to_drive(temp_file.name)
handle_pdf_download(r) ==
    /\ run[r].kind = "handle_pdf"
    /\ run[r].pc = "download_to_drive"
    /\ \/ \E e \in Raised :
              /\ Set(r, handle_pdf_except(run[r], e))
              /\ UNCHANGED fs
       \/ \E p \in NamedTemporaryFile, e \in Raised :
              /\ fs' = [fs EXCEPT ![p] = Partial]
              /\ Set(r, handle_pdf_except([run[r] EXCEPT !.created = p], e))
       \/ \E p \in NamedTemporaryFile :
              /\ fs' = [fs EXCEPT ![p] = run[r].arg]
              /\ Set(r, [run[r] EXCEPT !.created = p, !.temp_file_path = p,
                                       !.pc = "process_pdf"])
    /\ UNCHANGED index

\* document_chunks = process_pdf(temp_file_path), which reads the file, then
\* embedding_model = OpenAIEmbeddings(...), which touches nothing shared;
\* either may raise
handle_pdf_process(r) ==
    /\ run[r].kind = "handle_pdf"
    /\ run[r].pc = "process_pdf"
    /\ IF fs[run[r].temp_file_path] = Absent
       THEN Set(r, handle_pdf_except(run[r], FileNotFoundError))
       ELSE \/ Set(r, [run[r] EXCEPT
                         !.document_chunks = fs[run[r].temp_file_path],
                         !.pc = "send_to_qdrant"])
            \/ \E e \in Raised : Set(r, handle_pdf_except(run[r], e))
            \/ \E e \in Raised :
                  Set(r, handle_pdf_except([run[r] EXCEPT
                         !.document_chunks = fs[run[r].temp_file_path]], e))
    /\ UNCHANGED <<fs, index>>

\* success = send_to_qdrant(document_chunks, embedding_model)
handle_pdf_send(r) ==
    /\ run[r].kind = "handle_pdf"
    /\ run[r].pc = "send_to_qdrant"
    /\ \/ /\ index' = index \cup {run[r].document_chunks}
          /\ Set(r, [run[r] EXCEPT !.success = "True", !.pc = "os.remove"])
       \/ /\ UNCHANGED index
          /\ Set(r, [run[r] EXCEPT !.success = "False", !.pc = "os.remove"])
       \/ /\ UNCHANGED index
          /\ \E e \in Raised : Set(r, handle_pdf_except(run[r], e))
    /\ UNCHANGED fs

\* os.remove(temp_file_path), then the edit of the acknowledgment
handle_pdf_remove(r) ==
    /\ run[r].kind = "handle_pdf"
    /\ run[r].pc = "os.remove"
    /\ IF fs[run[r].temp_file_path] = Absent
       THEN /\ Set(r, handle_pdf_except(run[r], FileNotFoundError))
            /\ UNCHANGED fs
       ELSE /\ fs' = [fs EXCEPT ![run[r].temp_file_path] = Absent]
            /\ IF run[r].success = "True"
               THEN Set(r, [leave(run[r]) EXCEPT
                      !.msg = edit_text(@,
                         <<":white_check_mark: PDF processed successfully! You can now ask me questions about it.">>)])
               ELSE Set(r, [leave(run[r]) EXCEPT
                      !.msg = edit_text(@,
                         <<":x: Sorry, I couldn't process your PDF. Please try again.">>)])
    /\ UNCHANGED index

----------------------------------------------------------------------------
\* handle_question (chat gateway)

\* as handle_question_except, with str(e) appended as in handle_pdf
handle_question_except_verbose(rec, e) ==
    [leave(rec) EXCEPT !.exc = e,
                !.reply = reply_text(
                    <<":x: Sorry, I couldn't process your question. Make sure you've sent a PDF first!">>
                        \o str(e))]

\* except Exception as e: reply_text("... Make sure you've sent a PDF first!")
handle_question_except(rec, e) ==
    [leave(rec) EXCEPT !.exc = e,
                !.reply = reply_text(
                    <<":x: Sorry, I couldn't process your question. Make sure you've sent a PDF first!">>)]

\* thinking_message = await update.message.reply_text("Let me think about that...")
handle_question_thinking(r) ==
    /\ run[r].pc = "idle"
    /\ \E question \in Questions :
        Set(r, [IdleRun EXCEPT !.kind = "handle_question", !.arg = question,
                               !.msg = reply_text(<<":thinking: Let me think about that...">>),
                               !.pc = "qa_ret"])
    /\ UNCHANGED <<fs, index>>

\* qdrant_client(), qa_ret(qdrant_store, question), then the edit
handle_question_answer(r) ==
    /\ run[r].kind = "handle_question"
    /\ run[r].pc = "qa_ret"
    /\ \/ \E e \in Raised : Set(r, handle_question_except(run[r], e))
       \/ LET answer == qa_ret(index, run[r].arg)
              called == [run[r] EXCEPT !.seen = index, !.success = "called"]
          IN  IF answer.raised
              THEN Set(r, handle_question_except(called, answer.e))
              ELSE Set(r, [leave(called) EXCEPT
                             !.msg = edit_text(@, <<":mag: ">> \o answer.value)])
    /\ UNCHANGED <<fs, index>>

----------------------------------------------------------------------------
\* The framework sends the response of a finished call; the call is over.
respond(r) ==
    /\ run[r].pc = "done"
    /\ Set(r, IdleRun)
    /\ UNCHANGED <<fs, index>>

Next ==
    \E r \in Runs :
        \/ upload_pdf_save(r)
        \/ upload_pdf_process(r)
        \/ upload_pdf_send(r)
        \/ upload_pdf_remove(r)
        \/ ask_question(r)
        \/ health_check(r)
        \/ telegram_webhook(r)
        \/ handle_pdf_ack(r)
        \/ handle_pdf_download(r)
        \/ handle_pdf_process(r)
        \/ handle_pdf_send(r)
        \/ handle_pdf_remove(r)
        \/ handle_question_thinking(r)
        \/ handle_question_answer(r)
        \/ respond(r)

Spec == Init /\ [][Next]_vars

----------------------------------------------------------------------------
\* Vocabulary of the properties

Done(r, kind) == run[r].pc = "done" /\ run[r].kind = kind

\* the step in which the call of slot r returns or raises to its caller
Returns(r, kind) ==
    /\ run[r].pc # "done"
    /\ run'[r].pc = "done"
    /\ run'[r].kind = kind

\* the temporary file of the call of slot r: the one it created earlier, or
\* the one created in this very step
TempFileOf(r, p) ==
    \/ run[r].created = p
    \/ run[r].pc \in {"idle", "download_to_drive"}
          /\ fs[p] = Absent /\ fs'[p] # Absent

\* the string s ends the string text
Carries(text, s) ==
    /\ Len(s) <= Len(text)
    /\ SubSeq(text, Len(text) - Len(s) + 1, Len(text)) = s

\* C1: whichever step of upload_pdf raises or returns, the temporary file
\* created for the call no longer exists when the call returns.
C1_TempFileGoneOnReturn ==
    [][\A r \in Runs : Returns(r, "upload_pdf") =>
          \A p \in Paths : TempFileOf(r, p) => fs'[p] = Absent]_vars

\* C2: upload_pdf ends either with the success message, only when nothing
\* raised and send_to_qdrant returned true, or with an HTTP 500 whose detail
\* is non-empty and carries the message of the exception that caused it.
C2_SuccessOr500 ==
    \A r \in Runs : Done(r, "upload_pdf") =>
        \/ /\ run[r].resp = JSON("message",
                 <<"PDF successfully processed and stored in vector DB">>)
           /\ run[r].exc = NoExc
           /\ run[r].success = "True"
        \/ /\ run[r].resp.status = 500
           /\ run[r].resp.key = "detail"
           /\ Len(run[r].resp.body) > 0
           /\ run[r].exc # NoExc
           /\ Carries(run[r].resp.body, str(run[r].exc))

C2_Witness ==
    \E r \in Runs :
        /\ Done(r, "upload_pdf")
        /\ run[r].resp.status = 500
        /\ run[r].exc = Exception(<< >>)

\* C3: ask_question returns {"answer": r} with r the value qa_ret returned for
\* the store and the question, or raises HTTP 500 with detail
\* "Failed to retrieve answer: " followed by the exception text.
C3_AnswerOr500 ==
    \A r \in Runs : Done(r, "ask_question") =>
        \/ /\ run[r].success = "called"
           /\ ~ qa_ret(run[r].seen, run[r].arg).raised
           /\ run[r].exc = NoExc
           /\ run[r].resp = [status |-> 200, key |-> "answer",
                             body |-> qa_ret(run[r].seen, run[r].arg).value]
        \/ /\ run[r].exc # NoExc
           /\ run[r].success = "called" =>
                 run[r].exc = qa_ret(run[r].seen, run[r].arg).e
           /\ run[r].resp = [status |-> 500, key |-> "detail",
                             body |-> <<"Failed to retrieve answer: ">>
                                         \o str(run[r].exc)]

C3_Witness ==
    \E r \in Runs :
        /\ Done(r, "ask_question")
        /\ run[r].resp.status = 200
        /\ run[r].seen = Docs

\* C4: through POST /telegram/webhook, an update carrying a PDF document
\* yields an edited confirmation message, and a text question sent before any
\* PDF was indexed yields the fixed apology text.
C4_WebhookReachesHandlers ==
    \A r \in Runs : Done(r, "telegram_webhook") =>
        /\ run[r].update = "document" =>
              run[r].msg.sent /\ run[r].msg.edited
        /\ (run[r].update = "text" /\ index = {}) =>
              /\ run[r].reply.sent
              /\ run[r].reply.text =
                    <<":x: Sorry, I couldn't process your question. Make sure you've sent a PDF first!">>

\* C5: a run of handle_pdf that sent its acknowledgment ends with that
\* message edited to the success or the failure text and with the temporary
\* file of the download deleted, on every path.
C5_AckEditedAndFileGone ==
    [][\A r \in Runs : (Returns(r, "handle_pdf") /\ run'[r].msg.sent) =>
          /\ run'[r].msg.edited
          /\ run'[r].msg.text \in
                {<<":white_check_mark: PDF processed successfully! You can now ask me questions about it.">>,
                 <<":x: Sorry, I couldn't process your PDF. Please try again.">>}
          /\ \A p \in Paths : TempFileOf(r, p) => fs'[p] = Absent]_vars

Outcome(r) ==
    IF run[r].exc # NoExc THEN <<"failed">>
    ELSE IF run[r].kind = "ask_question" THEN run[r].resp.body
    ELSE SubSeq(run[r].msg.text, 2, Len(run[r].msg.text))

Asked(r) ==
    /\ run[r].pc = "done"
    /\ run[r].kind \in {"ask_question", "handle_question"}
    /\ run[r].success = "called"

C8_HealthCheckConstant ==
    /\ [](\A r \in Runs : Done(r, "health_check") =>
            run[r].resp = [status |-> 200, key |-> "status",
                           body |-> <<"Hello There!">>])
    /\ [][\A r \in Runs : Returns(r, "health_check") =>
            /\ index' = index
            /\ fs' = fs
            /\ \A o \in Runs \ {r} : run'[o] = run[o]]_vars

C8_Witness ==
    \E r, o \in Runs :
        /\ Done(r, "health_check")
        /\ run[o].kind = "upload_pdf"
        /\ run[o].pc = "os.remove"
        /\ index # {}
        /\ \E p \in Paths : fs[p] = Partial

\* C9: when send_to_qdrant returns false without raising, upload_pdf answers
\* HTTP 500 with detail exactly "Failed to store PDF in vector DB".
C9_FalseResultDetail ==
    \A r \in Runs :
        (Done(r, "upload_pdf") /\ run[r].success = "False") =>
            run[r].resp = [status |-> 500, key |-> "detail",
                           body |-> <<"Failed to store PDF in vector DB">>]

\* the calls that hold a temporary file: from its creation to their os.remove
Holding(r) ==
    /\ run[r].kind \in {"upload_pdf", "handle_pdf"}
    /\ run[r].pc \in {"process_pdf", "send_to_qdrant", "os.remove"}

\* C10: under any interleaving of upload_pdf and handle_pdf runs each run has
\* its own temporary path; its file exists, with its own content, from its
\* creation until its own os.remove, which comes only after its process_pdf
\* and send_to_qdrant returned; no file is deleted any other way.
C10_OwnTempFile ==
    /\ [](\A r \in Runs : Holding(r) =>
            /\ fs[run[r].temp_file_path] = run[r].arg
            /\ run[r].document_chunks \in {"", run[r].arg}
            /\ \A o \in Runs \ {r} :
                  Holding(o) => run[o].temp_file_path # run[r].temp_file_path)
    /\ [][\A p \in Paths : (fs[p] # Absent /\ fs'[p] = Absent) =>
            \E r \in Runs :
               /\ run[r].pc = "os.remove"
               /\ run[r].temp_file_path = p
               /\ run[r].document_chunks # ""
               /\ run[r].success \in {"True", "False"}
               /\ run'[r].pc = "done"]_vars

C10_Witness ==
    \E r, o \in Runs :
        /\ Holding(r) /\ Holding(o)
        /\ run[r].kind = "upload_pdf"
        /\ run[o].kind = "handle_pdf"
        /\ run[r].pc = "os.remove"
        /\ run[o].pc = "send_to_qdrant"
        /\ run[r].arg = run[o].arg

====
